---- MODULE Spec2Model ----
(***************************************************************************)
(* A model of the mblog static site generator (src/gen.py, src/_mblog).    *)
(*                                                                         *)
(* Two state machines share this module:                                   *)
(*   - Renderer.render_post, statement by statement, run by one caller     *)
(*     (SpecRender) or by two interleaved callers on one Post (SpecConc);   *)
(*   - StaticGenerator.generate, one action per generation step (Spec),    *)
(*     and run a second time over the same inputs (SpecTwice);             *)
(*   - MarkdownProcessor.load_posts, one action per file (SpecLoad).       *)
(***************************************************************************)
EXTENDS Integers, Sequences, FiniteSets, TLC

VARIABLES
    theme,        \* Theme._metadata['templates']: the configured template names
    staticDir,    \* the theme has a static directory
    rpost,        \* the Post object handed to render_post (shared by the callers)
    html0,        \* history: rpost.html when the Post was constructed
    call,         \* per caller: position in render_post and its locals
    overlap,      \* history: two render_post calls were in progress at once
    anyRaise,     \* history: some render_post call raised RendererError
    cfg,          \* Config: the keys generate() reads
    posts,        \* StaticGenerator.posts
    out,          \* the files under the output directory
    initialOut,   \* history: the files under the output directory before generate()
    written,      \* history: the files this run of generate() wrote
    pc,           \* position of generate()
    result,       \* what generate() gave its caller
    log,          \* history: the steps of generate() in the order they started
    raisedAt,     \* history: the step an exception escaped from
    ioFailed,     \* history: the output files whose write failed
    raisedBy,     \* history: what raised the exception that escaped
    indexViews,   \* per written index page: the context render_index rendered
    brokenTemplates, \* the configured template names whose file does not exist
    contents,     \* per file this run wrote: what the file holds
    clock,        \* datetime.now() during this run: its day and its instant
    run,          \* 1 in the first run of generate(), 2 in the second
    firstRun,     \* history: `contents` at the end of the first run
    mdFiles,      \* the files md_dir.rglob('*.md') finds under the content root
    pending,      \* the files load_posts has not visited yet
    loaded,       \* `posts` of load_posts
    skipped,      \* history: the files whose parse_post raised
    lpc,          \* position of load_posts
    themeDir,     \* the theme directory Theme was constructed with
    themeLoaded,  \* Theme.load(): not called yet, returned True, or raised
    lookups       \* history: per template name, how get_template last ended

vars == <<theme, staticDir, rpost, html0, call, overlap, anyRaise, cfg, posts, out,
          initialOut, written, pc, result, log, raisedAt, ioFailed, raisedBy,
          indexViews, brokenTemplates, contents, clock, run, firstRun,
          mdFiles, pending, loaded, skipped, lpc, themeDir, themeLoaded,
          lookups>>

renderVars == <<rpost, html0, call, overlap, anyRaise>>
buildVars == <<cfg, posts, out, initialOut, written, pc, result, log, raisedAt,
               ioFailed, raisedBy, indexViews, brokenTemplates, contents, clock, run, firstRun>>
loadVars == <<mdFiles, pending, loaded, skipped, lpc>>
themeVars == <<themeDir, themeLoaded, lookups>>

(***************************************************************************)
(* Bounds of the model.                                                    *)
(***************************************************************************)
MaxCalls == 2      \* render_post calls made on the Post, all callers together
MaxNonce == 2      \* distinct values os.urandom can give in the model
MaxPosts == 5      \* posts in a build
MaxPerPage == 3    \* largest theme_config.posts_per_page

Min(a, b) == IF a < b THEN a ELSE b

(***************************************************************************)
(* Theme                                                                   *)
(***************************************************************************)
TemplateNames == {"index", "post", "archive", "tag", "tags", "encrypted_post"}

\* The template mappings a loaded theme can carry: a full mapping, one
\* without the encrypted-post template, the two mandatory names only, and
\* the empty mapping Theme.load() gives a theme without theme.json.
ThemeMappings ==
    { TemplateNames,
      TemplateNames \ {"encrypted_post"},
      {"index", "post"},
      {} }

HasTemplate(name) == name \in theme

(***************************************************************************)
(* Post bodies.  A body is the text it was rendered from plus the          *)
(* encryption layers applied to it, innermost first; a layer is the        *)
(* password and the salt/nonce drawn for it.                               *)
(***************************************************************************)
NoticeText == 0

PlainBody(h) == [text |-> h, layers |-> <<>>]

NoticeBody == [text |-> NoticeText, layers |-> <<>>]

NoBody == [text |-> 0 - 1, layers |-> <<>>]

EncryptContent(content, password, r) ==
    [text |-> content.text, layers |-> Append(content.layers, <<password, r>>)]

Nonces == 1..MaxNonce

(***************************************************************************)
(* Renderer.render_post, one action per statement.                         *)
(***************************************************************************)
Threads == {1, 2}

IdleCall ==
    [pc |-> "idle", branch |-> "none", before |-> NoBody, encIn |-> NoBody,
     encrypted_html |-> NoBody, original_html |-> NoBody,
     template |-> "none", body |-> NoBody, calls |-> 0]

\* Mutant of IsProtected: the password is not looked at.
IsProtected_IgnoresPassword(p) == p.encrypted

\* `post.encrypted and post.password`: an empty password is falsy.
IsProtected(p) == p.encrypted /\ p.password # ""

\* The branch render_post takes for the post.
BranchOf(p) ==
    IF IsProtected(p)
    THEN IF HasTemplate("encrypted_post") THEN "enc" ELSE "notice"
    ELSE "plain"

\* The logical template a branch loads.
TemplateOf(branch) == IF branch = "enc" THEN "encrypted_post" ELSE "post"

\* theme.get_template(name) then env.get_template(...): raises when the
\* name is not configured, and can raise when it is (file missing, syntax).
LoadOutcomes(name) == IF HasTemplate(name) THEN {TRUE, FALSE} ELSE {FALSE}

\* The body a branch substitutes into post.html before rendering.
SubstitutedBody(c) == IF c.branch = "enc" THEN c.encrypted_html ELSE NoticeBody

\* Mutant of RestoredBody: the substituted body is written back.
RestoredBody_KeepsSubstitute(c) == SubstitutedBody(c)

\* The value the restore statement writes back to post.html.
RestoredBody(c) == c.original_html

CallsMade == call[1].calls + call[2].calls

Active(c) == c.pc \notin {"idle", "returned", "raised"}

\* Bookkeeping of the history variables after a step of caller t.
Track(raised) ==
    /\ overlap' = (overlap \/ \A u \in Threads : Active(call'[u]))
    /\ anyRaise' = (anyRaise \/ raised)
    /\ UNCHANGED <<theme, staticDir, html0>>
    /\ UNCHANGED buildVars
    /\ UNCHANGED loadVars
    /\ UNCHANGED themeVars

\* render_post(post) is entered.
Call(t) ==
    /\ call[t].pc \in {"idle", "returned", "raised"}
    /\ CallsMade < MaxCalls
    /\ call' = [call EXCEPT ![t] = [IdleCall EXCEPT !.pc = "check",
                                        !.before = rpost.html,
                                        !.calls = call[t].calls + 1]]
    /\ UNCHANGED rpost
    /\ Track(FALSE)

\* `if post.encrypted and post.password:` and `if self.theme.has_template(...)`.
Check(t) ==
    /\ call[t].pc = "check"
    /\ LET b == BranchOf(rpost) IN
       call' = [call EXCEPT ![t].branch = b,
                            ![t].pc = IF b = "enc" THEN "encrypt" ELSE "load"]
    /\ UNCHANGED rpost
    /\ Track(FALSE)

\* `encrypted_html = self._encrypt_content(post.html, post.password)`.
Encrypt(t) ==
    /\ call[t].pc = "encrypt"
    /\ \E r \in Nonces :
          call' = [call EXCEPT ![t].encIn = rpost.html,
                               ![t].encrypted_html =
                                   EncryptContent(rpost.html, rpost.password, r),
                               ![t].pc = "load"]
    /\ UNCHANGED rpost
    /\ Track(FALSE)

\* `template_path = self.theme.get_template(...)`, `self.env.get_template(...)`.
Load(t) ==
    /\ call[t].pc = "load"
    /\ \E ok \in LoadOutcomes(TemplateOf(call[t].branch)) :
          /\ call' = [call EXCEPT ![t].template = TemplateOf(call[t].branch),
                                  ![t].pc = IF ~ok THEN "raised"
                                            ELSE IF call[t].branch = "plain"
                                                 THEN "render" ELSE "save"]
          /\ UNCHANGED rpost
          /\ Track(~ok)

\* `original_html = post.html`.
Save(t) ==
    /\ call[t].pc = "save"
    /\ call' = [call EXCEPT ![t].original_html = rpost.html, ![t].pc = "subst"]
    /\ UNCHANGED rpost
    /\ Track(FALSE)

\* `post.html = encrypted_html` / `post.html = '<div class="encrypted-notice">...'`.
Subst(t) ==
    /\ call[t].pc = "subst"
    /\ rpost' = [rpost EXCEPT !.html = SubstitutedBody(call[t])]
    /\ call' = [call EXCEPT ![t].pc = "render"]
    /\ Track(FALSE)

\* `html = template.render(post=post)`: the template reads post.html; a
\* failure leaves the try block for `raise RendererError(...)`.
Render(t) ==
    /\ call[t].pc = "render"
    /\ \E ok \in BOOLEAN :
          /\ call' = [call EXCEPT ![t].body = rpost.html,
                                  ![t].pc = IF ~ok THEN "raised"
                                            ELSE IF call[t].branch = "plain"
                                                 THEN "returned" ELSE "restore"]
          /\ UNCHANGED rpost
          /\ Track(~ok)

\* `post.html = original_html` and `return html`.
Restore(t) ==
    /\ call[t].pc = "restore"
    /\ rpost' = [rpost EXCEPT !.html = RestoredBody(call[t])]
    /\ call' = [call EXCEPT ![t].pc = "returned"]
    /\ Track(FALSE)

RenderStep(t) ==
    \/ Call(t)
    \/ Check(t)
    \/ Encrypt(t)
    \/ Load(t)
    \/ Save(t)
    \/ Subst(t)
    \/ Render(t)
    \/ Restore(t)

HtmlTexts == {1, 2}

Passwords == {"", "pw"}

\* No file has been written.
NoFiles == [f \in {} |-> NoBody]

\* load_posts has not been started.
LoadOff ==
    /\ mdFiles = {}
    /\ pending = {}
    /\ loaded = <<>>
    /\ skipped = {}
    /\ lpc = "off"

\* The theme was loaded before the renderer and the generator were made:
\* `theme` is its mapping, and none of its templates was asked for by name.
ThemeOff ==
    /\ themeDir = [kind |-> "loaded"]
    /\ themeLoaded = "loaded"
    /\ lookups = [n \in {} |-> "none"]

\* generate() has not been started: the state of the build in the
\* specifications of render_post.
BuildOff ==
    /\ cfg = [has_ppp |-> FALSE, posts_per_page |-> 0, generate_rss |-> "absent",
              generate_sitemap |-> "absent", base_path |-> <<>>,
              md_dir |-> "absent"]
    /\ posts = <<>>
    /\ out = {}
    /\ initialOut = {}
    /\ written = {}
    /\ pc = "off"
    /\ result = "none"
    /\ log = <<>>
    /\ raisedAt = "none"
    /\ ioFailed = {}
    /\ raisedBy = "none"
    /\ indexViews = <<>>
    /\ brokenTemplates = {}
    /\ contents = NoFiles
    /\ clock = [day |-> 0, tick |-> 0]
    /\ run = 0
    /\ firstRun = NoFiles

InitRender ==
    /\ theme \in ThemeMappings
    /\ staticDir = FALSE
    /\ \E e \in BOOLEAN, pw \in Passwords, h \in HtmlTexts :
          rpost = [encrypted |-> e, password |-> pw, html |-> PlainBody(h)]
    /\ html0 = rpost.html
    /\ call = [t \in Threads |-> IdleCall]
    /\ overlap = FALSE
    /\ anyRaise = FALSE
    /\ BuildOff
    /\ LoadOff
    /\ ThemeOff

\* One caller.
NextRender == \E t \in {1} : RenderStep(t)

SpecRender == InitRender /\ [][NextRender]_vars

\* Two callers rendering the same Post, interleaved statement by statement.
NextConc == \E t \in Threads : RenderStep(t)

SpecConc == InitRender /\ [][NextConc]_vars

(***************************************************************************)
(* Strings the code takes apart are sequences of one-character strings.    *)
(***************************************************************************)
RECURSIVE LStrip(_, _)
LStrip(s, ch) == IF s # <<>> /\ Head(s) \in ch THEN LStrip(Tail(s), ch) ELSE s

RECURSIVE RStrip(_, _)
RStrip(s, ch) ==
    IF s # <<>> /\ s[Len(s)] \in ch THEN RStrip(SubSeq(s, 1, Len(s) - 1), ch) ELSE s

\* str.strip(chars)
Strip(s, ch) == RStrip(LStrip(s, ch), ch)

Whitespace == {" "}

\* The base_path render_index and _register_globals derive from site.base_path.
NormalizeBasePath(raw) ==
    LET stripped == Strip(raw, Whitespace)
        slashed == IF stripped # <<>> /\ Head(stripped) # "/"
                   THEN <<"/">> \o stripped ELSE stripped
    IN IF slashed # <<>> /\ slashed[Len(slashed)] = "/"
       THEN SubSeq(slashed, 1, Len(slashed) - 1) ELSE slashed

(***************************************************************************)
(* Config                                                                  *)
(***************************************************************************)
\* config.get('build.generate_rss', True): an absent key gives the default.
FlagOn(v) == v # "false"

\* `posts_per_page is None or posts_per_page <= 0` of _generate_index_pages.
Unpaginated == ~cfg.has_ppp \/ cfg.posts_per_page <= 0

(***************************************************************************)
(* File names and relative paths are sequences of tokens: "." and "/" are  *)
(* tokens of their own and the text between two of them is one token, so   *)
(* <<"d", "/", "a", ".", "md">> is d/a.md and <<".", "md">> is .md.  The   *)
(* directory of a file is the sequence of the directory names.             *)
(***************************************************************************)
RECURSIVE Flatten(_)
\* The concatenation of a sequence of sequences.
Flatten(ss) == IF ss = <<>> THEN <<>> ELSE Head(ss) \o Flatten(Tail(ss))

\* name.rfind('.') of PurePath.suffix, counted from 1; 0 when there is no dot.
LastDot(name) ==
    IF \E i \in 1..Len(name) : name[i] = "."
    THEN CHOOSE i \in 1..Len(name) :
            /\ name[i] = "."
            /\ \A j \in i + 1..Len(name) : name[j] # "."
    ELSE 0

\* PurePath.suffix: `if 0 < i < len(name) - 1: return name[i:]`, else ''. A
\* dot that starts or ends the name starts no suffix.
Suffix(name) ==
    LET i == LastDot(name)
    IN IF 1 < i /\ i < Len(name) THEN SubSeq(name, i, Len(name)) ELSE <<>>

\* The name of path.with_suffix('').
WithoutSuffix(name) == SubSeq(name, 1, Len(name) - Len(Suffix(name)))

\* _get_relative_path for a file rglob found under md_dir:
\* `str(filepath.relative_to(self.md_dir).with_suffix(''))`.
GetRelativePath(file) ==
    Flatten([i \in 1..Len(file.dir) |-> <<file.dir[i], "/">>]) \o WithoutSuffix(file.name)

(***************************************************************************)
(* Posts of a build: post i of the date-descending list, and the Markdown  *)
(* file under the content root it was parsed from.                         *)
(***************************************************************************)
SourceOf(i) ==
    [dir |-> IF i = 3 THEN <<"d">> ELSE <<>>,
     name |-> IF i = 4 THEN <<".", "md">>
              ELSE IF i = 5 THEN <<".", "md", ".", "md">>
              ELSE <<ToString(i), ".", "md">>]

PostOf(i) ==
    [relative_path |-> GetRelativePath(SourceOf(i)),
     tags |-> IF i = 5 THEN << <<"a">>, <<"a">> >>
              ELSE IF i % 3 = 1 THEN << <<"a">>, <<"b", " ", "c">> >>
              ELSE IF i % 3 = 2 THEN << <<"b", " ", "c">> >>
              ELSE IF i = 3 THEN << <<"A">>, <<"i", "n", "d", "e", "x">> >>
              ELSE <<>>,
     encrypted |-> (i % 2 = 0),
     password |-> IF i % 4 = 0 THEN "pw" ELSE "",
     description |-> IF i % 2 = 1 THEN "d" ELSE "",
     html |-> PlainBody(i),
     images |-> IF i = 1 THEN << <<"srv", "md", "img", "a.png">> >> ELSE <<>>]

(***************************************************************************)
(* Renderer.render_index                                                   *)
(***************************************************************************)
\* Python's s[a:b] for 0 <= a, 0 <= b.
PySlice(s, a, b) == SubSeq(s, Min(a, Len(s)) + 1, Min(b, Len(s)))

\* Mutant of TotalPages: floor instead of ceiling.
TotalPages_Floor(total_posts, posts_per_page) == total_posts \div posts_per_page

\* `(total_posts + posts_per_page - 1) // posts_per_page`
TotalPages(total_posts, posts_per_page) ==
    (total_posts + posts_per_page - 1) \div posts_per_page

\* Mutant of PageSlice: the end index is one short.
PageSlice_EndOffByOne(ps, page, posts_per_page) ==
    PySlice(ps, (page - 1) * posts_per_page, (page - 1) * posts_per_page + posts_per_page - 1)

\* `start_idx = (page - 1) * posts_per_page`, `posts[start_idx:end_idx]`
PageSlice(ps, page, posts_per_page) ==
    LET start_idx == (page - 1) * posts_per_page
        end_idx == start_idx + posts_per_page
    IN PySlice(ps, start_idx, end_idx)

\* None, for a URL.
NoUrl == <<>>

PageUrl(base_path, n) == base_path \o <<"/page/", ToString(n), ".html">>

\* Mutant of PrevUrl: page 2 links to page/1.html like every later page.
PrevUrl_NoRootCase(base_path, page) ==
    IF page > 1 THEN PageUrl(base_path, page - 1) ELSE NoUrl

\* `prev_url = f'{base_path}/' if page == 2 else f'{base_path}/page/{page - 1}.html' if page > 1 else None`
PrevUrl(base_path, page) ==
    IF page = 2 THEN base_path \o <<"/">>
    ELSE IF page > 1 THEN PageUrl(base_path, page - 1)
    ELSE NoUrl

\* `next_url = f'{base_path}/page/{page + 1}.html' if page < total_pages else None`
NextUrl(base_path, page, total_pages) ==
    IF page < total_pages THEN PageUrl(base_path, page + 1) ELSE NoUrl

\* `pagination = None`; prev_page and next_page are 0 for None.
NoPagination ==
    [present |-> FALSE, page |-> 0, total_pages |-> 0, total_posts |-> 0,
     has_prev |-> FALSE, has_next |-> FALSE, prev_page |-> 0, next_page |-> 0,
     prev_url |-> NoUrl, next_url |-> NoUrl]

\* The context render_index hands to the index template.
RenderIndex(ps, page, paginate, posts_per_page) ==
    IF paginate /\ posts_per_page > 0
    THEN LET total_posts == Len(ps)
             total_pages == TotalPages(total_posts, posts_per_page)
             base_path == NormalizeBasePath(cfg.base_path)
         IN [posts |-> PageSlice(ps, page, posts_per_page),
             pagination |->
                 [present |-> TRUE, page |-> page, total_pages |-> total_pages,
                  total_posts |-> total_posts,
                  has_prev |-> page > 1,
                  has_next |-> page < total_pages,
                  prev_page |-> IF page > 1 THEN page - 1 ELSE 0,
                  next_page |-> IF page < total_pages THEN page + 1 ELSE 0,
                  prev_url |-> PrevUrl(base_path, page),
                  next_url |-> NextUrl(base_path, page, total_pages)]]
    ELSE [posts |-> ps, pagination |-> NoPagination]

(***************************************************************************)
(* StaticGenerator._sanitize_filename and Renderer.get_all_tags            *)
(***************************************************************************)
LowerLetters == {"a", "b", "c", "d", "e", "g", "i", "n", "t", "x"}

UpperLetters == {"A", "B"}

\* The characters `[\w\s-]` keeps, among those of the model.
KeptChars == LowerLetters \cup UpperLetters \cup {"_", "-"} \cup Whitespace

Separators == Whitespace \cup {"_"}

\* str.lower(), one character.
ToLower(c) == IF c = "A" THEN "a" ELSE IF c = "B" THEN "b" ELSE c

RECURSIVE CollapseSeparators(_)
\* re.sub(r'[\s_]+', '-', s)
CollapseSeparators(s) ==
    IF s = <<>> THEN <<>>
    ELSE IF Head(s) \in Separators
         THEN <<"-">> \o CollapseSeparators(LStrip(Tail(s), Separators))
         ELSE <<Head(s)>> \o CollapseSeparators(Tail(s))

SanitizeFilename(name) ==
    LET kept == SelectSeq(name, LAMBDA c : c \in KeptChars)
        dashed == CollapseSeparators(kept)
        trimmed == Strip(dashed, {"-"})
        safe_name == [i \in 1..Len(trimmed) |-> ToLower(trimmed[i])]
    IN IF safe_name = <<>> THEN <<"t", "a", "g">> ELSE safe_name

RECURSIVE FirstSeen(_)
\* The elements of a sequence in the order of their first occurrence.
FirstSeen(s) ==
    IF s = <<>> THEN <<>>
    ELSE LET init == FirstSeen(SubSeq(s, 1, Len(s) - 1))
             last == s[Len(s)]
         IN IF \E i \in 1..Len(init) : init[i] = last THEN init
            ELSE Append(init, last)

\* The keys of get_all_tags(posts), in insertion order.
TagKeys(ps) == FirstSeen(Flatten([i \in 1..Len(ps) |-> ps[i].tags]))

(***************************************************************************)
(* Output paths, as the sequence of their components.  <<"page", "2">> is  *)
(* page/2.html, <<"posts">> \o r is posts/{r}.html and <<"tags">> \o s is *)
(* tags/{s}.html.                                                          *)
(***************************************************************************)
IndexFile == <<"index.html">>

\* `index_path` of _generate_index_pages
IndexPath(page) == IF page = 1 THEN IndexFile ELSE <<"page", ToString(page)>>

PostPath(post) == <<"posts">> \o post.relative_path

TagsIndexFile == <<"tags", "i", "n", "d", "e", "x">>

TagPath(tag) == <<"tags">> \o SanitizeFilename(tag)

ArchiveFile == <<"archive.html">>

RssFile == <<"rss.xml">>

SitemapFile == <<"sitemap.xml">>

SearchIndexFile == <<"search-index.json">>

StaticFiles == {<<"static", "style.css">>}

\* path.relative_to(root) returns: root is a prefix of path.
IsUnder(path, root) ==
    Len(path) >= Len(root) /\ SubSeq(path, 1, Len(root)) = root

\* path.relative_to(root)
RelativeTo(path, root) == SubSeq(path, Len(root) + 1, Len(path))

\* `md_dir = Path(self.config.get('build.md_dir', 'md')).resolve()` of
\* _copy_post_images, the program running in /srv.
CopyRoot == <<"srv", IF cfg.md_dir = "absent" THEN "md" ELSE cfg.md_dir>>

\* `img_dest = images_dest / rel_path`
ImagePath(img) == <<"assets", "images">> \o RelativeTo(img, CopyRoot)

\* The destinations of the recorded images whose relative_to(md_dir) does
\* not raise ValueError.
ImagePaths(ps) ==
    UNION {{ImagePath(ps[i].images[j]) :
               j \in {k \in 1..Len(ps[i].images) : IsUnder(ps[i].images[k], CopyRoot)}} :
           i \in 1..Len(ps)}

(***************************************************************************)
(* What an output file holds: the entries it lists in order (posts by      *)
(* relative path, tags by name, URLs by the output file they name), the    *)
(* post count it shows for every listed tag, the reading of the clock it   *)
(* embeds (0: none), the post body it carries (NoBody: none) and, per      *)
(* listed entry of a feed, the part of the post's body the entry carries.  *)
(***************************************************************************)
FileContent(data, counts, stamp, body) ==
    [data |-> data, counts |-> counts, stamp |-> stamp, body |-> body,
     excerpts |-> <<>>]

Listing(data) == FileContent(data, <<>>, 0, NoBody)

RelativePaths(ps) == [i \in 1..Len(ps) |-> ps[i].relative_path]

\* tags_map[tag] of get_all_tags: `tags_map[tag].append(post)` runs once for
\* every occurrence of the tag in post.tags.
TagPosts(ps, tag) ==
    Flatten([i \in 1..Len(ps) |->
                [j \in 1..Len(SelectSeq(ps[i].tags, LAMBDA t : t = tag)) |-> ps[i]]])

\* The characters of the model in code point order.
CharOrder ==
    <<" ", "-", "A", "B", "_", "a", "b", "c", "d", "e", "g", "i", "n", "t", "x">>

CharRank(c) == CHOOSE i \in 1..Len(CharOrder) : CharOrder[i] = c

RECURSIVE StrLess(_, _)
\* Python's s < t for two strings.
StrLess(s, t) ==
    IF t = <<>> THEN FALSE
    ELSE IF s = <<>> THEN TRUE
    ELSE IF Head(s) = Head(t) THEN StrLess(Tail(s), Tail(t))
    ELSE CharRank(Head(s)) < CharRank(Head(t))

\* The tag names of `sorted(tags_data.items())` in render_tags_index.
SortedTags(ps) == SortSeq(TagKeys(ps), StrLess)

\* tags_stats of render_tags_index: name and `'count': len(posts)` per tag.
TagsIndexContent(ps) ==
    LET names == SortedTags(ps)
    IN FileContent(names, [i \in 1..Len(names) |-> Len(TagPosts(ps, names[i]))],
                   0, NoBody)

\* The posts render_tag_page is given for the tag.
TagContent(ps, tag) == Listing(RelativePaths(TagPosts(ps, tag)))

\* The posts of an index page.
IndexContent(view) == Listing(RelativePaths(view.posts))

\* The page render_post returns for the post; r is the salt and nonce
\* _encrypt_content draws when the post is protected.
PostContent(post, r) ==
    FileContent(<<post.relative_path>>, <<>>, 0,
                IF BranchOf(post) = "enc"
                THEN EncryptContent(post.html, post.password, r)
                ELSE IF BranchOf(post) = "notice" THEN NoticeBody
                ELSE post.html)

ArchiveContent(ps) == Listing(RelativePaths(ps))

\* `self.posts[:20]` of _generate_rss
RssLimit == 20

\* Mutant of RssContent: the channel carries the instant of the build.
RssContent_BuildDate(ps) ==
    FileContent(RelativePaths(PySlice(ps, 0, RssLimit)), <<>>, clock.tick, NoBody)

\* `description = post.description or post.html[:200]`: what an RSS item
\* carries of the post's body, nothing when the post has a description and
\* the head of post.html when it has none.
RssDescription(post) == IF post.description # "" THEN NoBody ELSE post.html

\* The items of rss.xml.
RssContent(ps) ==
    LET items == PySlice(ps, 0, RssLimit)
    IN [Listing(RelativePaths(items)) EXCEPT
           !.excerpts = [i \in 1..Len(items) |-> RssDescription(items[i])]]

\* The <url> entries of sitemap.xml: home, archive, tag index, every post,
\* every key of get_all_tags; all but the posts carry today's date.
SitemapContent(ps, now) ==
    FileContent(<<IndexFile, ArchiveFile, TagsIndexFile>>
                    \o [i \in 1..Len(ps) |-> PostPath(ps[i])]
                    \o [i \in 1..Len(TagKeys(ps)) |-> TagPath(TagKeys(ps)[i])],
                <<>>, now.day, NoBody)

\* search-index.json: one entry per post and `'generated_at': datetime.now()`.
SearchIndexContent(ps, now) ==
    FileContent(RelativePaths(ps), <<>>, now.tick, NoBody)

\* The greatest index up to k whose output path is f: the later write wins.
LastWriter(paths, k, f) ==
    CHOOSE i \in 1..k : paths[i] = f /\ \A j \in i + 1..k : paths[j] # f

(***************************************************************************)
(* StaticGenerator.generate, one action per step.                          *)
(***************************************************************************)
\* Mutant of StepAfter: the post pages are generated before the index pages.
StepAfter_PostsBeforeIndex(step) ==
    CASE step = "prepare" -> "static"
      [] step = "static" -> "images"
      [] step = "images" -> "posts"
      [] step = "posts" -> "index"
      [] step = "index" -> "tags"
      [] step = "tags" -> "archive"
      [] step = "archive" ->
            IF FlagOn(cfg.generate_rss) THEN "rss"
            ELSE IF FlagOn(cfg.generate_sitemap) THEN "sitemap" ELSE "search"
      [] step = "rss" -> IF FlagOn(cfg.generate_sitemap) THEN "sitemap" ELSE "search"
      [] step = "sitemap" -> "search"
      [] OTHER -> "done"

\* The step generate(), _copy_static_assets and _generate_pages run after `step`.
StepAfter(step) ==
    CASE step = "prepare" -> "static"
      [] step = "static" -> "images"
      [] step = "images" -> "index"
      [] step = "index" -> "posts"
      [] step = "posts" -> "tags"
      [] step = "tags" -> "archive"
      [] step = "archive" ->
            IF FlagOn(cfg.generate_rss) THEN "rss"
            ELSE IF FlagOn(cfg.generate_sitemap) THEN "sitemap" ELSE "search"
      [] step = "rss" -> IF FlagOn(cfg.generate_sitemap) THEN "sitemap" ELSE "search"
      [] step = "sitemap" -> "search"
      [] OTHER -> "done"

BuildFrame ==
    /\ UNCHANGED <<theme, staticDir, cfg, posts, initialOut, brokenTemplates,
                   clock, run, firstRun>>
    /\ UNCHANGED renderVars
    /\ UNCHANGED loadVars
    /\ UNCHANGED themeVars

\* The step wrote `files` and returned: generate() goes on, and returns True
\* after the last step.
Proceed(step, files) ==
    /\ out' = out \cup files
    /\ written' = written \cup files
    /\ log' = Append(log, step)
    /\ pc' = StepAfter(step)
    /\ result' = IF StepAfter(step) = "done" THEN "ok" ELSE result
    /\ UNCHANGED <<raisedAt, raisedBy>>
    /\ BuildFrame

\* Mutant of Abort: the exception is dropped and generate() goes on.
Abort_GoesOn(step, files, by) ==
    /\ out' = out \cup files
    /\ written' = written \cup files
    /\ log' = Append(log, step)
    /\ pc' = StepAfter(step)
    /\ result' = IF StepAfter(step) = "done" THEN "ok" ELSE result
    /\ raisedAt' = step
    /\ raisedBy' = by
    /\ BuildFrame

\* The step wrote `files` and then an exception escaped it:
\* `except Exception as e: raise GenerationError(...)` of generate().  `by`
\* is what raised: a file system operation ("io"), the loading of a
\* template ("template") or its rendering ("render").
Abort(step, files, by) ==
    /\ out' = out \cup files
    /\ written' = written \cup files
    /\ log' = Append(log, step)
    /\ pc' = "failed"
    /\ result' = "GenerationError"
    /\ raisedAt' = step
    /\ raisedBy' = by
    /\ BuildFrame

\* _write_file for every file of `pages`: a later write replaces an earlier one.
Store(pages) == contents' = pages @@ contents

\* Mutant of PreparedDir: the existing contents are kept.
PreparedDir_KeepsContents(existing) == existing

\* The output directory after shutil.rmtree and mkdir.
PreparedDir(existing) == {}

\* _prepare_output_dir; rmtree can fail after removing a part of the tree.
PrepareOutputDir ==
    /\ pc = "prepare"
    /\ \/ /\ out' = PreparedDir(out)
          /\ pc' = StepAfter("prepare")
          /\ UNCHANGED <<result, raisedAt, raisedBy>>
       \/ /\ out # {}
          /\ \E kept \in SUBSET out :
                /\ kept # {}
                /\ out' = kept
          /\ pc' = "failed"
          /\ result' = "GenerationError"
          /\ raisedAt' = "prepare"
          /\ raisedBy' = "io"
    /\ log' = Append(log, "prepare")
    /\ UNCHANGED <<written, ioFailed, indexViews, contents>>
    /\ BuildFrame

\* _copy_static_assets up to the call of _copy_post_images.
CopyStaticAssets ==
    /\ pc = "static"
    /\ \/ ~staticDir /\ Proceed("static", {})
       \/ staticDir /\ Proceed("static", StaticFiles)
       \/ staticDir /\ Abort("static", {}, "io")
    /\ Store([f \in written' \ written |-> Listing(<<>>)])
    /\ UNCHANGED <<ioFailed, indexViews>>

\* _copy_post_images: an image that is not under build.md_dir is skipped
\* with a warning, a failed copy of one image is a warning; creating
\* assets/images can fail.
CopyPostImages ==
    /\ pc = "images"
    /\ \/ \E copied \in SUBSET ImagePaths(posts) : Proceed("images", copied)
       \/ Abort("images", {}, "io")
    /\ Store([f \in written' \ written |-> Listing(<<>>)])
    /\ UNCHANGED <<ioFailed, indexViews>>

\* theme.get_template(name) returns: the name is configured and its file exists.
Usable(name) == HasTemplate(name) /\ name \notin brokenTemplates

\* The pages _generate_index_pages renders, in order.
IndexPageCount ==
    IF Unpaginated THEN 1 ELSE TotalPages(Len(posts), cfg.posts_per_page)

\* _generate_index_pages: the first k pages are rendered and written; page
\* k + 1, if there is one, fails in render_index or in _write_file.
GenerateIndexPages ==
    /\ pc = "index"
    /\ \E k \in 0..IndexPageCount :
          LET views == [p \in 1..k |->
                           RenderIndex(posts, p, ~Unpaginated, cfg.posts_per_page)]
              paths == [p \in 1..k |-> IndexPath(p)]
              files == {paths[p] : p \in 1..k}
          IN /\ (k > 0 => Usable("index"))
             /\ indexViews' = views
             /\ Store([f \in files |-> IndexContent(views[LastWriter(paths, k, f)])])
             /\ \/ /\ k = IndexPageCount
                   /\ Proceed("index", files)
                   /\ UNCHANGED ioFailed
                \/ /\ k < IndexPageCount
                   /\ Abort("index", files,
                            IF Usable("index") THEN "render" ELSE "template")
                   /\ UNCHANGED ioFailed
                \/ /\ k < IndexPageCount
                   /\ Usable("index")
                   /\ Abort("index", files, "io")
                   /\ ioFailed' = ioFailed \cup {IndexPath(k + 1)}

\* render_post can return for the post: the template of its branch loads.
Renderable(post) == Usable(TemplateOf(BranchOf(post)))

\* _generate_post_pages: the first k posts are rendered and written; post
\* k + 1, if there is one, fails in render_post or in _write_file.  Every
\* protected post among the k draws its own salt and nonce.
GeneratePostPages ==
    /\ pc = "posts"
    /\ \E k \in 0..Len(posts) :
          LET paths == [i \in 1..k |-> PostPath(posts[i])]
              files == {paths[i] : i \in 1..k}
              drawing == {i \in 1..k : BranchOf(posts[i]) = "enc"}
          IN
          /\ \A i \in 1..k : Renderable(posts[i])
          /\ \E draw \in [drawing -> Nonces] :
                Store([f \in files |->
                          LET i == LastWriter(paths, k, f)
                          IN PostContent(posts[i],
                                         IF i \in drawing THEN draw[i] ELSE 0)])
          /\ \/ /\ k = Len(posts)
                /\ Proceed("posts", files)
                /\ UNCHANGED ioFailed
             \/ /\ k < Len(posts)
                /\ Abort("posts", files,
                         IF Renderable(posts[k + 1]) THEN "render" ELSE "template")
                /\ UNCHANGED ioFailed
             \/ /\ k < Len(posts)
                /\ Renderable(posts[k + 1])
                /\ Abort("posts", files, "io")
                /\ ioFailed' = ioFailed \cup {PostPath(posts[k + 1])}
    /\ UNCHANGED indexViews

\* render_tag_page, render_tags_index and render_archive load their template:
\* the optional template when the theme configures it, the index template
\* otherwise; get_template raises when the file of the one chosen is missing.
HasTemplateOrIndex(name) ==
    IF HasTemplate(name) THEN name \notin brokenTemplates ELSE Usable("index")

\* _generate_tag_pages: nothing without tags; creating tags/ can fail; the
\* tag index is written unless its template is missing or its write fails,
\* which is caught; the first k tag pages are rendered and written and tag k + 1, if
\* there is one, fails in render_tag_page or in _write_file.
GenerateTagPages ==
    /\ pc = "tags"
    /\ LET keys == TagKeys(posts) IN
       \/ /\ keys = <<>>
          /\ Proceed("tags", {})
          /\ UNCHANGED <<ioFailed, contents>>
       \/ /\ keys # <<>>
          /\ Abort("tags", {}, "io")
          /\ UNCHANGED <<ioFailed, contents>>
       \/ /\ keys # <<>>
          /\ \E indexWritten \in BOOLEAN, k \in 0..Len(keys) :
                LET indexFiles == IF indexWritten THEN {TagsIndexFile} ELSE {}
                    paths == [i \in 1..k |-> TagPath(keys[i])]
                    tagFiles == {paths[i] : i \in 1..k}
                    files == indexFiles \cup tagFiles
                    failed == IF ~indexWritten /\ HasTemplateOrIndex("tags")
                              THEN {TagsIndexFile} ELSE {}
                IN /\ (indexWritten => HasTemplateOrIndex("tags"))
                   /\ (k > 0 => HasTemplateOrIndex("tag"))
                   /\ Store([f \in tagFiles |->
                                TagContent(posts, keys[LastWriter(paths, k, f)])]
                            @@ [f \in indexFiles |-> TagsIndexContent(posts)])
                   /\ \/ /\ k = Len(keys)
                         /\ Proceed("tags", files)
                         /\ ioFailed' = ioFailed \cup failed
                      \/ /\ k < Len(keys)
                         /\ Abort("tags", files,
                                  IF HasTemplateOrIndex("tag") THEN "render"
                                  ELSE "template")
                         /\ ioFailed' = ioFailed \cup failed
                      \/ /\ k < Len(keys)
                         /\ HasTemplateOrIndex("tag")
                         /\ Abort("tags", files, "io")
                         /\ ioFailed' = ioFailed \cup failed \cup {TagPath(keys[k + 1])}
    /\ UNCHANGED indexViews

\* A step whose body is `try: ... self._write_file(path, ...) except Exception:
\* print(...)`: the file is written with `page` unless rendering fails or the
\* write fails; either failure is caught and the step returns.
BestEffort(step, path, renders, page) ==
    \/ /\ renders
       /\ Proceed(step, {path})
       /\ Store(path :> page)
       /\ UNCHANGED ioFailed
    \/ /\ ~renders
       /\ Proceed(step, {})
       /\ UNCHANGED <<ioFailed, contents>>
    \/ /\ renders
       /\ Proceed(step, {})
       /\ ioFailed' = ioFailed \cup {path}
       /\ UNCHANGED contents

\* _generate_archive_page
GenerateArchivePage ==
    /\ pc = "archive"
    /\ BestEffort("archive", ArchiveFile, HasTemplateOrIndex("archive"),
                  ArchiveContent(posts))
    /\ UNCHANGED indexViews

\* _generate_rss
GenerateRss ==
    /\ pc = "rss"
    /\ BestEffort("rss", RssFile, TRUE, RssContent(posts))
    /\ UNCHANGED indexViews

\* _generate_sitemap
GenerateSitemap ==
    /\ pc = "sitemap"
    /\ BestEffort("sitemap", SitemapFile, TRUE, SitemapContent(posts, clock))
    /\ UNCHANGED indexViews

\* _generate_search_index
GenerateSearchIndex ==
    /\ pc = "search"
    /\ BestEffort("search", SearchIndexFile, TRUE, SearchIndexContent(posts, clock))
    /\ UNCHANGED indexViews

\* The themes of the builds: with every template, with the mandatory two,
\* and without a template mapping.
BuildThemes == {TemplateNames, {"index", "post"}, {}}

\* What an earlier build can have left in the output directory.
StaleFiles == {RssFile, <<"page", "2">>, <<"old.txt">>}

BasePaths == {<<>>, <<" ", "b", "/">>}

\* The template files that can be missing although theme.json names them.
BrokenChoices(templates) ==
    IF templates = TemplateNames THEN {{}, {"tag"}, {"tags"}} ELSE {{}}

\* datetime.now() in the first run.
FirstClock == [day |-> 1, tick |-> 1]

RenderOff ==
    /\ rpost = [encrypted |-> FALSE, password |-> "", html |-> NoBody]
    /\ html0 = NoBody
    /\ call = [t \in Threads |-> IdleCall]
    /\ overlap = FALSE
    /\ anyRaise = FALSE

Init ==
    /\ theme \in BuildThemes
    /\ brokenTemplates \in BrokenChoices(theme)
    /\ staticDir \in BOOLEAN
    /\ \E paginate \in BOOLEAN, ppp \in 0..MaxPerPage,
          rss \in {"absent", "false"}, sitemap \in {"absent", "false"},
          base \in BasePaths :
          /\ (~paginate => ppp = 0)
          /\ cfg = [has_ppp |-> paginate, posts_per_page |-> ppp,
                    generate_rss |-> rss, generate_sitemap |-> sitemap,
                    base_path |-> base, md_dir |-> "absent"]
    /\ \E n \in 0..MaxPosts : posts = [i \in 1..n |-> PostOf(i)]
    /\ out \in {{}, StaleFiles}
    /\ initialOut = out
    /\ written = {}
    /\ pc = "prepare"
    /\ result = "none"
    /\ log = <<>>
    /\ raisedAt = "none"
    /\ ioFailed = {}
    /\ raisedBy = "none"
    /\ indexViews = <<>>
    /\ contents = NoFiles
    /\ clock = FirstClock
    /\ run = 1
    /\ firstRun = NoFiles
    /\ RenderOff
    /\ LoadOff
    /\ ThemeOff

Next ==
    \/ PrepareOutputDir
    \/ CopyStaticAssets
    \/ CopyPostImages
    \/ GenerateIndexPages
    \/ GeneratePostPages
    \/ GenerateTagPages
    \/ GenerateArchivePage
    \/ GenerateRss
    \/ GenerateSitemap
    \/ GenerateSearchIndex

Spec == Init /\ [][Next]_vars

(***************************************************************************)
(* gen.py run twice over the same content, configuration and theme.        *)
(***************************************************************************)
\* The first run has returned True and gen.py is started again: a new
\* StaticGenerator over the same inputs, at a later instant of the same or
\* of the next day, with the output of the first run in the output directory.
Rebuild ==
    /\ pc = "done"
    /\ run = 1
    /\ run' = 2
    /\ firstRun' = contents
    /\ \E day \in {clock.day, clock.day + 1} :
          clock' = [day |-> day, tick |-> clock.tick + 1]
    /\ initialOut' = out
    /\ written' = {}
    /\ contents' = NoFiles
    /\ pc' = "prepare"
    /\ result' = "none"
    /\ log' = <<>>
    /\ raisedAt' = "none"
    /\ raisedBy' = "none"
    /\ ioFailed' = {}
    /\ indexViews' = <<>>
    /\ UNCHANGED <<theme, staticDir, cfg, posts, out, brokenTemplates>>
    /\ UNCHANGED renderVars
    /\ UNCHANGED loadVars
    /\ UNCHANGED themeVars

\* The post lists of the sites built twice: none, a protected post, and an
\* unprotected post before it.
TwicePosts == {<<>>, <<PostOf(4)>>, <<PostOf(2), PostOf(4)>>}

\* A site with every template, two posts per index page, RSS and sitemap on.
InitTwice ==
    /\ theme = TemplateNames
    /\ brokenTemplates = {}
    /\ staticDir = FALSE
    /\ cfg = [has_ppp |-> TRUE, posts_per_page |-> Min(2, MaxPerPage),
              generate_rss |-> "absent", generate_sitemap |-> "absent",
              base_path |-> <<>>, md_dir |-> "absent"]
    /\ posts \in TwicePosts
    /\ out = {}
    /\ initialOut = out
    /\ written = {}
    /\ pc = "prepare"
    /\ result = "none"
    /\ log = <<>>
    /\ raisedAt = "none"
    /\ ioFailed = {}
    /\ raisedBy = "none"
    /\ indexViews = <<>>
    /\ contents = NoFiles
    /\ clock = FirstClock
    /\ run = 1
    /\ firstRun = NoFiles
    /\ RenderOff
    /\ LoadOff
    /\ ThemeOff

NextTwice ==
    \/ Next
    \/ Rebuild

SpecTwice == InitTwice /\ [][NextTwice]_vars

(***************************************************************************)
(* Builds of a site with images under the content root md, for the values  *)
(* of build.md_dir: absent, the directory gen.py loads the posts from, and *)
(* another directory.                                                      *)
(***************************************************************************)
InitImages ==
    /\ theme = TemplateNames
    /\ brokenTemplates = {}
    /\ staticDir \in BOOLEAN
    /\ \E dir \in {"absent", "md", "content"}, ppp \in 0..1 :
          cfg = [has_ppp |-> ppp > 0, posts_per_page |-> ppp,
                 generate_rss |-> "absent", generate_sitemap |-> "absent",
                 base_path |-> <<>>, md_dir |-> dir]
    /\ \E n \in 1..2 : posts = [i \in 1..n |-> PostOf(i)]
    /\ out = {}
    /\ initialOut = out
    /\ written = {}
    /\ pc = "prepare"
    /\ result = "none"
    /\ log = <<>>
    /\ raisedAt = "none"
    /\ ioFailed = {}
    /\ raisedBy = "none"
    /\ indexViews = <<>>
    /\ contents = NoFiles
    /\ clock = FirstClock
    /\ run = 1
    /\ firstRun = NoFiles
    /\ RenderOff
    /\ LoadOff
    /\ ThemeOff

SpecImages == InitImages /\ [][Next]_vars

(***************************************************************************)
(* MarkdownProcessor: the Markdown files under the content root.  A file   *)
(* is its place under md_dir, the front matter fields parse_post reads and *)
(* the image references of its body.                                       *)
(***************************************************************************)
\* A front matter value of `date`: absent, a string (of the format it
\* matches, "other" when it matches none), a datetime (naive, or aware when
\* the YAML timestamp has a time zone), a date, or a number.
DateField(kind, shape, aware, t) ==
    [kind |-> kind, shape |-> shape, aware |-> aware, t |-> t]

NoDate == DateField("absent", "", FALSE, 0)

DateString(shape, t) == DateField("str", shape, FALSE, t)

\* An image reference `![alt](target)`: the prefix _process_markdown_with_images
\* looks at and the path after it, name by name.
ImageRef(prefix, path) == [prefix |-> prefix, path |-> path]

MdFile(id, dir, title, date, mtime, refs, encrypted, password) ==
    [id |-> id, dir |-> dir, name |-> <<ToString(id), ".", "md">>, title |-> title,
     date |-> date, mtime |-> mtime, refs |-> refs, encrypted |-> encrypted,
     password |-> password]

\* The files a content root can hold.
MdCatalogue ==
    {MdFile(1, <<>>, "string", DateString("%Y-%m-%d", 30), 70,
            <<ImageRef("", <<"img", "a.png">>), ImageRef("", <<"img", "none.png">>),
              ImageRef("", <<"img">>)>>, "absent", "absent"),
     MdFile(2, <<>>, "string", DateString("%Y/%m/%d", 30), 70,
            <<ImageRef("http://", <<"h", "a.png">>), ImageRef("https://", <<"h", "a.png">>),
              ImageRef("//", <<"h", "a.png">>), ImageRef("/", <<"img", "a.png">>)>>,
            "true", "pw"),
     MdFile(3, <<"d">>, "string", NoDate, 10,
            <<ImageRef("", <<"..", "..", "pics", "x.png">>),
              ImageRef("", <<"..", "img", "a.png">>)>>, "absent", "pw"),
     MdFile(4, <<>>, "absent", DateString("%Y-%m-%d %H:%M:%S", 20), 70, <<>>,
            "absent", "absent"),
     MdFile(5, <<>>, "string", DateString("other", 20), 70, <<>>, "absent", "absent"),
     MdFile(6, <<>>, "string", DateField("datetime", "", TRUE, 20), 70, <<>>,
            "true", "absent"),
     MdFile(7, <<>>, "number", DateField("date", "", FALSE, 40), 70, <<>>,
            "absent", "absent"),
     MdFile(8, <<>>, "string", DateField("int", "", FALSE, 40), 70, <<>>,
            "absent", "absent"),
     MdFile(9, <<>>, "string", DateField("datetime", "", FALSE, 50), 70, <<>>,
            "false", "absent"),
     MdFile(10, <<>>, "string", DateString("%Y/%m/%d %H:%M:%S", 60), 70, <<>>,
            "absent", "absent"),
     MdFile(11, <<>>, "string", DateString("%Y-%m-%dT%H:%M:%S", 20), 70, <<>>,
            "absent", "absent"),
     MdFile(12, <<>>, "string", DateString("%Y-%m-%d %H:%M:%S", 40), 70, <<>>,
            "absent", "absent")}

\* `formats` of _parse_date
DateFormats ==
    <<"%Y-%m-%d", "%Y/%m/%d", "%Y-%m-%d %H:%M:%S", "%Y/%m/%d %H:%M:%S",
      "%Y-%m-%dT%H:%M:%S">>

\* A datetime: naive or aware, and its instant.
DateTime(aware, t) == [ok |-> TRUE, aware |-> aware, t |-> t]

\* _parse_date or parse_post raised.
Raised == [ok |-> FALSE, aware |-> FALSE, t |-> 0]

\* _parse_date: a datetime is returned as it is, a date becomes the
\* datetime of its midnight, a string is tried against the formats in
\* order, and anything else raises ValueError.
ParseDate(date_value) ==
    IF date_value.kind = "datetime" THEN DateTime(date_value.aware, date_value.t)
    ELSE IF date_value.kind = "date" THEN DateTime(FALSE, date_value.t)
    ELSE IF date_value.kind = "str"
         THEN IF \E i \in 1..Len(DateFormats) : DateFormats[i] = date_value.shape
              THEN DateTime(FALSE, date_value.t)
              ELSE Raised
    ELSE Raised

\* `date` of parse_post: the parsed date field when the front matter has
\* one, the modification time of the file otherwise.
PostDate(file) ==
    IF file.date.kind # "absent" THEN ParseDate(file.date)
    ELSE DateTime(FALSE, file.mtime)

(***************************************************************************)
(* _process_markdown_with_images.  An absolute path is the sequence of its *)
(* names.                                                                  *)
(***************************************************************************)
\* self.md_dir, resolved.
MdDir == <<"srv", "md">>

\* The regular files and the directories of the file system.
RegularFiles == {<<"srv", "md", "img", "a.png">>, <<"srv", "pics", "x.png">>}

Directories == {<<"srv">>, <<"srv", "md">>, <<"srv", "md", "img">>,
                <<"srv", "md", "d">>, <<"srv", "pics">>}

RECURSIVE Resolve(_)
\* Path.resolve(): every ".." removes the name before it.
Resolve(path) ==
    IF path = <<>> THEN <<>>
    ELSE LET init == Resolve(SubSeq(path, 1, Len(path) - 1))
             last == path[Len(path)]
         IN IF last # ".." THEN Append(init, last)
            ELSE IF init = <<>> THEN <<>>
            ELSE SubSeq(init, 1, Len(init) - 1)

\* `img_abs_path = (md_filepath.parent / img_path).resolve()`
ImgAbsPath(file, ref) == Resolve(MdDir \o file.dir \o ref.path)

\* `img_path.startswith(('http://', 'https://', '//'))` or
\* `img_path.startswith('/')`
IsRemoteOrAbsolute(ref) ==
    ref.prefix \in {"http://", "https://", "//"} \/ ref.prefix = "/"

\* The reference as replace_image leaves it, and the path it appends to images.
Unchanged(ref) == [target |-> ref, image |-> <<>>]

\* Mutant of ReplaceImage: the resolved file need not be under md_dir.
ReplaceImage_AnyExistingFile(file, ref) ==
    LET img_abs_path == ImgAbsPath(file, ref)
    IN IF IsRemoteOrAbsolute(ref) THEN Unchanged(ref)
       ELSE IF img_abs_path \in RegularFiles
            THEN [target |-> ImageRef("/assets/images/",
                                      RelativeTo(img_abs_path, MdDir)),
                  image |-> <<img_abs_path>>]
            ELSE Unchanged(ref)

\* replace_image: remote and absolute targets are returned as they are; a
\* relative target is rewritten and recorded when the resolved path exists,
\* is a file and relative_to(md_dir) does not raise.
ReplaceImage(file, ref) ==
    LET img_abs_path == ImgAbsPath(file, ref)
    IN IF IsRemoteOrAbsolute(ref) THEN Unchanged(ref)
       ELSE IF /\ img_abs_path \in RegularFiles \cup Directories
               /\ img_abs_path \in RegularFiles
               /\ IsUnder(img_abs_path, MdDir)
            THEN [target |-> ImageRef("/assets/images/",
                                      RelativeTo(img_abs_path, MdDir)),
                  image |-> <<img_abs_path>>]
            ELSE Unchanged(ref)

(***************************************************************************)
(* parse_post and load_posts                                               *)
(***************************************************************************)
NoPost ==
    [source |-> 0, relative_path |-> <<>>, date |-> Raised, images |-> <<>>,
     refs |-> <<>>, encrypted |-> FALSE, password |-> ""]

\* parse_post: ValueError without a title, the exception of _parse_date,
\* the AttributeError of `title.lower()` in _generate_slug for a title that
\* is not a string, and the Post otherwise.
ParsePost(file) ==
    IF file.title = "absent" THEN NoPost
    ELSE IF ~PostDate(file).ok THEN NoPost
    ELSE IF file.title # "string" THEN NoPost
    ELSE [source |-> file.id,
          relative_path |-> GetRelativePath(file),
          date |-> PostDate(file),
          images |-> Flatten([j \in 1..Len(file.refs) |->
                                 ReplaceImage(file, file.refs[j]).image]),
          refs |-> [j \in 1..Len(file.refs) |-> ReplaceImage(file, file.refs[j]).target],
          encrypted |-> (file.encrypted = "true"),
          password |-> IF file.password = "absent" THEN "" ELSE file.password]

\* Mutant of InsertByDate: the earlier date comes first.
InsertByDate_Ascending(sorted, post) ==
    LET before == SelectSeq(sorted, LAMBDA q : q.date.t <= post.date.t)
        after == SelectSeq(sorted, LAMBDA q : q.date.t > post.date.t)
    IN before \o <<post>> \o after

\* The place of one more post in a list sorted by date, latest first: after
\* the posts that are not earlier, so that equal dates keep their order.
InsertByDate(sorted, post) ==
    LET before == SelectSeq(sorted, LAMBDA q : q.date.t >= post.date.t)
        after == SelectSeq(sorted, LAMBDA q : q.date.t < post.date.t)
    IN before \o <<post>> \o after

RECURSIVE SortByDate(_)
\* `posts.sort(key=lambda p: p.date, reverse=True)`: stable.
SortByDate(ps) ==
    IF ps = <<>> THEN <<>>
    ELSE InsertByDate(SortByDate(SubSeq(ps, 1, Len(ps) - 1)), ps[Len(ps)])

\* Comparing a naive datetime with an aware one raises TypeError.
Comparable(ps) == \A i, j \in 1..Len(ps) : ps[i].date.aware = ps[j].date.aware

\* `if not self.md_dir.exists(): return []`
ReturnEmpty ==
    /\ lpc = "nodir"
    /\ lpc' = "done"
    /\ UNCHANGED <<mdFiles, pending, loaded, skipped>>
    /\ UNCHANGED <<theme, staticDir>>
    /\ UNCHANGED renderVars
    /\ UNCHANGED buildVars
    /\ UNCHANGED themeVars

\* One round of `for md_file in self.md_dir.rglob('*.md')`, in the order the
\* file system yields the files: the Post is appended, or the exception of
\* parse_post is printed and the file skipped.
VisitFile ==
    /\ lpc = "scan"
    /\ \E md_file \in pending :
          /\ pending' = pending \ {md_file}
          /\ IF ParsePost(md_file) # NoPost
             THEN /\ loaded' = Append(loaded, ParsePost(md_file))
                  /\ UNCHANGED skipped
             ELSE /\ skipped' = skipped \cup {md_file}
                  /\ UNCHANGED loaded
    /\ UNCHANGED <<mdFiles, lpc>>
    /\ UNCHANGED <<theme, staticDir>>
    /\ UNCHANGED renderVars
    /\ UNCHANGED buildVars
    /\ UNCHANGED themeVars

\* `posts.sort(...)` and `return posts` after the loop; the TypeError of the
\* sort is not caught.
SortPosts ==
    /\ lpc = "scan"
    /\ pending = {}
    /\ IF Comparable(loaded)
       THEN /\ loaded' = SortByDate(loaded)
            /\ lpc' = "done"
       ELSE /\ lpc' = "raised"
            /\ UNCHANGED loaded
    /\ UNCHANGED <<mdFiles, pending, skipped>>
    /\ UNCHANGED <<theme, staticDir>>
    /\ UNCHANGED renderVars
    /\ UNCHANGED buildVars
    /\ UNCHANGED themeVars

\* The greatest number of Markdown files under the content root.
MaxFiles == 3

InitLoad ==
    /\ mdFiles \in {fs \in SUBSET MdCatalogue : Cardinality(fs) <= MaxFiles}
    /\ pending = mdFiles
    /\ loaded = <<>>
    /\ skipped = {}
    /\ lpc \in IF mdFiles = {} THEN {"scan", "nodir"} ELSE {"scan"}
    /\ theme = TemplateNames
    /\ staticDir = FALSE
    /\ RenderOff
    /\ BuildOff
    /\ ThemeOff

NextLoad ==
    \/ ReturnEmpty
    \/ VisitFile
    \/ SortPosts

SpecLoad == InitLoad /\ [][NextLoad]_vars

(***************************************************************************)
(* Theme.load and Theme.get_template.  A template file name is the         *)
(* sequence of its stem and, if it has one, its .html extension.           *)
(***************************************************************************)
\* `if not actual_filename.endswith('.html'): actual_filename += '.html'`
EnsureHtml(filename) ==
    IF filename # <<>> /\ filename[Len(filename)] = ".html"
    THEN filename
    ELSE Append(filename, ".html")

\* required_templates of validate_structure.
RequiredTemplates ==
    {<<"base", ".html">>, <<"index", ".html">>, <<"post", ".html">>}

\* The `templates` objects of a theme.json: every name, the two mandatory
\* names without the extension, index mapped to a file of another name,
\* post only, and no name.
TemplateMappings ==
    { [n \in TemplateNames |-> <<n, ".html">>],
      [n \in {"index", "post"} |-> <<n>>],
      [n \in {"index", "post"} |->
          IF n = "index" THEN <<"home">> ELSE <<n, ".html">>],
      [n \in {"post"} |-> <<n, ".html">>],
      [n \in {} |-> <<>>] }

\* The theme directories: a missing path, a path that is a file, and
\* directories with or without theme.json (unreadable, without a templates
\* key, or with one), with or without templates/ and the files in it, and
\* with static absent, a directory or a file.
ThemeDirs ==
    { [kind |-> k, json |-> "absent", templates |-> [n \in {} |-> <<>>],
       templatesDir |-> FALSE, files |-> {}, static |-> "absent"] :
         k \in {"missing", "file"} }
    \cup
    { d \in [kind : {"dir"},
             json : {"absent", "invalid", "no templates", "object"},
             templates : TemplateMappings,
             templatesDir : BOOLEAN,
             files : SUBSET (RequiredTemplates \cup {<<"tag", ".html">>}),
             static : {"absent", "dir", "file"}] :
         /\ d.json # "object" => d.templates = [n \in {} |-> <<>>]
         /\ ~d.templatesDir => d.files = {} }

\* self._metadata.get('templates', {}) once load() has read theme.json or
\* made the default metadata.
TemplatesConfig(dir) ==
    IF dir.json = "object" THEN dir.templates ELSE [n \in {} |-> <<>>]

\* validate_structure: templates/ is a directory, the three required files
\* exist, and static, if it exists, is a directory.
ValidateStructure(dir) ==
    /\ dir.templatesDir
    /\ RequiredTemplates \subseteq dir.files
    /\ dir.static # "file"

\* Theme.load(): ThemeError for a path that is no directory and for an
\* unreadable theme.json; otherwise the metadata is set, and the theme is
\* loaded when validate_structure passes.
ThemeLoad ==
    /\ themeLoaded = "new"
    /\ IF themeDir.kind # "dir" \/ themeDir.json = "invalid"
       THEN /\ themeLoaded' = "ThemeError"
            /\ UNCHANGED theme
       ELSE /\ theme' = DOMAIN TemplatesConfig(themeDir)
            /\ themeLoaded' =
                  IF ValidateStructure(themeDir) THEN "loaded" ELSE "ThemeError"
    /\ UNCHANGED <<themeDir, lookups, staticDir>>
    /\ UNCHANGED renderVars
    /\ UNCHANGED buildVars
    /\ UNCHANGED loadVars

\* How get_template(name) ends: with one of its three ThemeErrors or with
\* the path of the file.
GetTemplateResult(name) ==
    IF themeLoaded # "loaded" THEN "not loaded"
    ELSE IF ~HasTemplate(name) THEN "not configured"
    ELSE IF EnsureHtml(TemplatesConfig(themeDir)[name]) \notin themeDir.files
         THEN "file missing"
    ELSE "path"

GetTemplate(name) ==
    /\ lookups' = [lookups EXCEPT ![name] = GetTemplateResult(name)]
    /\ UNCHANGED <<theme, staticDir, themeDir, themeLoaded>>
    /\ UNCHANGED renderVars
    /\ UNCHANGED buildVars
    /\ UNCHANGED loadVars

InitTheme ==
    /\ themeDir \in ThemeDirs
    /\ themeLoaded = "new"
    /\ lookups = [n \in {"index", "post", "tag"} |-> "none"]
    /\ theme = {}
    /\ staticDir = (themeDir.static = "dir")
    /\ RenderOff
    /\ BuildOff
    /\ LoadOff

NextTheme ==
    \/ ThemeLoad
    \/ \E name \in DOMAIN lookups : GetTemplate(name)

SpecTheme == InitTheme /\ [][NextTheme]_vars

(***************************************************************************)
(* Properties of render_post                                               *)
(***************************************************************************)
Finished(c) == c.pc \in {"returned", "raised"}

\* C1: when render_post has finished, by returning HTML or by raising
\* RendererError, post.html is the value it had when the call was entered.
C1_HtmlRestoredOnEveryExit ==
    \A t \in Threads : Finished(call[t]) => rpost.html = call[t].before

\* The body a call renders when no other call touches the Post.
OwnBody(c) ==
    IF c.branch = "enc" THEN c.encrypted_html
    ELSE IF c.branch = "notice" THEN NoticeBody
    ELSE html0

\* A call read a body another call had substituted: it encrypted something
\* other than the original HTML, or rendered something other than its own
\* payload (or notice, or the original HTML for an unprotected post).
ReadForeignBody(c) ==
    \/ c.encIn \notin {NoBody, html0}
    \/ c.body \notin {NoBody, OwnBody(c)}

\* C2: rendering one Post from two callers is unsafe because of the
\* interleaving alone: as long as no call raised, a call reads a body
\* substituted by another call, or post.html differs from the original HTML
\* once every call has returned, only if two calls were in progress at the
\* same time (C2_InterleavedCorruption shows that this does happen).
C2_UnsafeOnlyWhenInterleaved ==
    (~anyRaise /\ ~overlap) =>
        /\ \A t \in Threads : ~ReadForeignBody(call[t])
        /\ (\A t \in Threads : ~Active(call[t])) => rpost.html = html0

\* Two interleaved calls have both returned HTML, one of them encrypted the
\* other's ciphertext, one of them rendered a body that is not its own
\* payload, and post.html is left different from the original HTML.
C2_InterleavedCorruption ==
    /\ overlap
    /\ ~anyRaise
    /\ \A t \in Threads : call[t].pc = "returned"
    /\ \E t \in Threads : call[t].encIn \notin {NoBody, html0}
    /\ \E t \in Threads : call[t].body \notin {NoBody, OwnBody(call[t])}
    /\ rpost.html # html0

\* The body is an encrypted payload of the post's HTML under its password.
IsPayloadOf(body, p) ==
    /\ body.text = html0.text
    /\ body.layers # <<>>
    /\ body.layers[Len(body.layers)][1] = p.password

\* C3: a post with encrypted true and a non-empty password is rendered with
\* the encrypted_post template and the encrypted payload as its body when the
\* theme has that template, and with the post template and the fixed notice
\* as its body otherwise, never with the plaintext body; every other post is
\* rendered with the post template and its unmodified body.
C3_ThreeCasePolicy ==
    \A t \in Threads :
        LET c == call[t] IN
        c.body # NoBody =>
            IF rpost.encrypted /\ rpost.password # ""
            THEN /\ c.body # html0
                 /\ IF "encrypted_post" \in theme
                    THEN c.template = "encrypted_post" /\ IsPayloadOf(c.body, rpost)
                    ELSE c.template = "post" /\ c.body = NoticeBody
            ELSE c.template = "post" /\ c.body = html0

\* A protected post has been rendered with the encrypted_post template and
\* the call has returned.
C3_EncryptedRendered ==
    /\ call[1].pc = "returned"
    /\ call[1].template = "encrypted_post"
    /\ rpost.encrypted /\ rpost.password # ""
    /\ call[1].body.layers # <<>>

(***************************************************************************)
(* Properties of generate()                                                *)
(***************************************************************************)
MandatoryOrder ==
    <<"prepare", "static", "images", "index", "posts", "tags", "archive",
      "rss", "sitemap", "search">>

\* The mandatory order without the steps the configuration switches off.
ExpectedOrder ==
    SelectSeq(MandatoryOrder,
              LAMBDA st : /\ (st = "rss" => cfg.generate_rss # "false")
                          /\ (st = "sitemap" => cfg.generate_sitemap # "false"))

Started(step) == \E i \in 1..Len(log) : log[i] = step

Completed(step) == Started(step) /\ raisedAt # step

\* The step that writes a file of the output tree.
StepOfFile(f) ==
    CASE f = IndexFile -> "index"
      [] f = ArchiveFile -> "archive"
      [] f = RssFile -> "rss"
      [] f = SitemapFile -> "sitemap"
      [] f = SearchIndexFile -> "search"
      [] f[1] = "page" -> "index"
      [] f[1] = "posts" -> "posts"
      [] f[1] = "tags" -> "tags"
      [] f[1] = "static" -> "static"
      [] f[1] = "assets" -> "images"
      [] OTHER -> "none"

\* C4: the steps of generate() start in the mandatory order (prepare, static
\* assets, images, index, posts, tags, archive, RSS, sitemap, search index,
\* without the steps switched off), a successful run has run all of them,
\* every file written was written by a step that has started, and nothing is
\* written before the output directory has been prepared.
C4_MandatoryOrder ==
    /\ Len(log) <= Len(ExpectedOrder)
    /\ \A i \in 1..Len(log) : log[i] = ExpectedOrder[i]
    /\ (result = "ok" => log = ExpectedOrder)
    /\ \A f \in written : Started(StepOfFile(f))
    /\ (written # {} => Completed("prepare"))

\* A successful run with RSS and sitemap on has run all ten steps in order.
C4_AllStepsRan ==
    /\ result = "ok"
    /\ log = MandatoryOrder
    /\ {IndexFile, RssFile, SitemapFile, SearchIndexFile} \subseteq written
    /\ \E f \in written : f[1] = "posts"

\* C5: after a successful generate() the output directory holds only files
\* written by this run, whatever it held before: no rss.xml when
\* build.generate_rss is false, no page/2.html when there is no second page.
C5_NoStaleFile ==
    result = "ok" =>
        /\ out \subseteq written
        /\ (cfg.generate_rss = "false" => RssFile \notin out)
        /\ (<<"page", "2">> \in out => Len(indexViews) >= 2)

\* The output directory held stale files, among them rss.xml and
\* page/2.html; the build succeeded with RSS off and a single index page.
C5_StaleFilesRemoved ==
    /\ result = "ok"
    /\ initialOut = StaleFiles
    /\ cfg.generate_rss = "false"
    /\ Len(indexViews) = 1
    /\ out \cap StaleFiles = {}
    /\ out # {}

StepRank(step) == CHOOSE i \in 1..Len(MandatoryOrder) : MandatoryOrder[i] = step

\* C6: when an exception escapes a step, generate() gives its caller
\* GenerationError, that step is the last one that ran, no file of a later
\* step is written, and the files written before stay in place.
C6_AbortsAtFailedStep ==
    raisedAt # "none" =>
        /\ result = "GenerationError"
        /\ pc = "failed"
        /\ log[Len(log)] = raisedAt
        /\ written \subseteq out
        /\ \A f \in written : StepRank(StepOfFile(f)) <= StepRank(raisedAt)

\* The post pages failed after the index and the first post were written:
\* both files are still there under GenerationError.
C6_FailedAfterPartialOutput ==
    /\ raisedAt = "posts"
    /\ result = "GenerationError"
    /\ IndexFile \in out
    /\ <<"posts", "1">> \in out
    /\ <<"posts", "2">> \notin out
    /\ Len(posts) >= 2

\* C7: a failure to write an output file makes generate() fail with
\* GenerationError: no build is reported successful after a failed write.
C7_WriteFailureIsFatal == ioFailed # {} => result # "ok"

Paginated == cfg.has_ppp /\ cfg.posts_per_page > 0

\* ceil(n / d) for d > 0: the least k with k * d >= n.
CeilDiv(n, d) == CHOOSE k \in 0..n : k * d >= n /\ \A j \in 0..k - 1 : j * d < n

IndexFilesIn(files) == {f \in files : f = IndexFile \/ f[1] = "page"}

\* C8: with posts_per_page > 0 index generation writes exactly
\* ceil(total_posts / posts_per_page) index pages: page 1 to index.html,
\* page n >= 2 to page/{n}.html, and no other page file.
C8_ExactlyTotalPages ==
    (Paginated /\ Completed("index")) =>
        LET total_pages == CeilDiv(Len(posts), cfg.posts_per_page) IN
        /\ Len(indexViews) = total_pages
        /\ Cardinality(IndexFilesIn(out)) = total_pages
        /\ IndexFilesIn(out) =
              {f \in {IndexFile} : total_pages >= 1} \cup
              {<<"page", ToString(n)>> : n \in 2..total_pages}

\* Five posts, two per page: index.html, page/2.html and page/3.html.
C8_ThreePagesWritten ==
    /\ Completed("index")
    /\ cfg.has_ppp /\ cfg.posts_per_page = 2
    /\ Len(posts) = 5
    /\ IndexFilesIn(out) = {IndexFile, <<"page", "2">>, <<"page", "3">>}

\* C9: index page p holds exactly posts[(p-1)*per_page : p*per_page]; no page
\* is empty, and the pages in order make up the post list, every post on
\* exactly one page in the original order.
C9_PagesPartitionPosts ==
    Paginated =>
        LET per_page == cfg.posts_per_page IN
        /\ \A p \in 1..Len(indexViews) :
              /\ indexViews[p].posts =
                    SubSeq(posts, (p - 1) * per_page + 1, Min(p * per_page, Len(posts)))
              /\ indexViews[p].posts # <<>>
        /\ (Completed("index") =>
              Flatten([p \in 1..Len(indexViews) |-> indexViews[p].posts]) = posts)

\* Five posts, two per page: the third page holds the fifth post alone.
C9_LastPageShort ==
    /\ Completed("index")
    /\ cfg.has_ppp /\ cfg.posts_per_page = 2
    /\ Len(posts) = 5
    /\ Len(indexViews) = 3
    /\ indexViews[3].posts = <<PostOf(5)>>

\* The prefix the site is deployed under, for the base paths of the model.
DeployPrefix == IF cfg.base_path = <<>> THEN <<>> ELSE <<"/", "b">>

\* The output file a URL of the deployed site is served from.
ServedFile(url) ==
    LET n == Len(DeployPrefix)
        rest == SubSeq(url, n + 1, Len(url))
    IN IF Len(url) <= n \/ SubSeq(url, 1, n) # DeployPrefix THEN <<"not served">>
       ELSE IF rest = <<"/">> THEN IndexFile
       ELSE IF Len(rest) = 3 /\ rest[1] = "/page/" /\ rest[3] = ".html"
            THEN <<"page", rest[2]>>
       ELSE <<"not served">>

\* C10: on page p of a paginated index has_prev is true exactly when p > 1
\* and has_next exactly when p < total_pages; prev_url is absent on page 1,
\* the root index on page 2 and page/{p-1}.html after that; next_url is
\* page/{p+1}.html before the last page and absent on it; and every URL
\* present names a page this build writes.
C10_PaginationDescriptor ==
    (Paginated /\ Completed("index")) =>
        LET total_pages == CeilDiv(Len(posts), cfg.posts_per_page) IN
        \A p \in 1..Len(indexViews) :
            LET pg == indexViews[p].pagination IN
            /\ pg.present /\ pg.page = p /\ pg.total_pages = total_pages
            /\ pg.has_prev = (p > 1)
            /\ pg.has_next = (p < total_pages)
            /\ (p = 1 => pg.prev_url = NoUrl)
            /\ (p = 2 => ServedFile(pg.prev_url) = IndexFile)
            /\ (p > 2 => ServedFile(pg.prev_url) = <<"page", ToString(p - 1)>>)
            /\ (p < total_pages => ServedFile(pg.next_url) = <<"page", ToString(p + 1)>>)
            /\ (p >= total_pages => pg.next_url = NoUrl)
            /\ (pg.prev_url # NoUrl => ServedFile(pg.prev_url) \in out)
            /\ (pg.next_url # NoUrl => ServedFile(pg.next_url) \in out)

\* Three index pages of a site deployed under /b: page 2 links back to /b/
\* and on to /b/page/3.html.
C10_MiddlePageLinks ==
    /\ Completed("index")
    /\ Len(indexViews) = 3
    /\ cfg.base_path # <<>>
    /\ indexViews[2].pagination.prev_url = <<"/", "b", "/">>
    /\ indexViews[2].pagination.next_url = <<"/", "b", "/page/", "3", ".html">>
    /\ indexViews[3].pagination.next_url = NoUrl

(***************************************************************************)
(* Properties of the post pages                                            *)
(***************************************************************************)
PostFilesIn(fs) == {f \in fs : f[1] = "posts"}

\* C11: after a successful build there is one file per post at
\* posts/{relative_path}.html: every post has its file, the files under
\* posts/ are as many as the posts, and no two posts are written to the
\* same output path.
C11_OneFilePerPost ==
    result = "ok" =>
        /\ \A i \in 1..Len(posts) : PostPath(posts[i]) \in out
        /\ Cardinality(PostFilesIn(out)) = Len(posts)
        /\ \A i, j \in 1..Len(posts) :
              i # j => PostPath(posts[i]) # PostPath(posts[j])

(***************************************************************************)
(* Properties of the tag pages                                             *)
(***************************************************************************)
Carries(post, tag) == \E j \in 1..Len(post.tags) : post.tags[j] = tag

\* The posts tagged `tag`, in the order of the post list.
PostsTagged(ps, tag) == SelectSeq(ps, LAMBDA post : Carries(post, tag))

\* C15: tag aggregation maps every tag to exactly the posts that carry it:
\* the page of tag t lists every post tagged t, once, and no other post; the
\* tag index lists every tag, sorted by name, with a count equal to the
\* number of posts tagged with it.
C15_TagAggregation ==
    /\ \A i \in 1..Len(TagKeys(posts)) :
          LET tag == TagKeys(posts)[i] IN
          TagPath(tag) \in DOMAIN contents =>
              contents[TagPath(tag)].data = RelativePaths(PostsTagged(posts, tag))
    /\ TagsIndexFile \in DOMAIN contents =>
          LET index == contents[TagsIndexFile] IN
          /\ {index.data[i] : i \in 1..Len(index.data)} =
                {TagKeys(posts)[i] : i \in 1..Len(TagKeys(posts))}
          /\ \A i, j \in 1..Len(index.data) :
                i < j => StrLess(index.data[i], index.data[j])
          /\ \A i \in 1..Len(index.data) :
                index.counts[i] = Len(PostsTagged(posts, index.data[i]))

\* The theme has no template of this name to load: theme.json does not name
\* it, or names a file that does not exist.
Missing(name) == ~(HasTemplate(name) /\ name \notin brokenTemplates)

\* C16: a missing tag-page or tag-index template is not fatal: generate()
\* never fails because a template could not be loaded for the tag pages;
\* with one of the two missing, a failure of that step comes from the file
\* system or from the rendering of a template that was loaded.
C16_MissingTagTemplateNotFatal ==
    (Missing("tag") \/ Missing("tags")) =>
        ~(raisedAt = "tags" /\ raisedBy = "template")

(***************************************************************************)
(* Properties of the feed, the sitemap and the search index                *)
(***************************************************************************)
\* C17: after a successful build with build.generate_rss true or absent,
\* rss.xml holds exactly min(20, number of posts) items, one per post of the
\* first 20 of the post list, in order; with build.generate_rss false the
\* output directory holds no rss.xml.
C17_RssItems ==
    result = "ok" =>
        IF cfg.generate_rss # "false"
        THEN /\ RssFile \in out
             /\ RssFile \in DOMAIN contents
             /\ Len(contents[RssFile].data) = Min(20, Len(posts))
             /\ contents[RssFile].data =
                   RelativePaths(SubSeq(posts, 1, Min(20, Len(posts))))
        ELSE RssFile \notin out

\* The file without the encrypted payload it carries.
WithoutPayload(c) == IF c.body.layers # <<>> THEN [c EXCEPT !.body = NoBody] ELSE c

\* The file without the reading of the clock it embeds.
WithoutStamp(c) == [c EXCEPT !.stamp = 0]

BothRunsDone == run = 2 /\ result = "ok"

InBothRuns == DOMAIN contents \cap DOMAIN firstRun

FileOfPost(post) == CHOOSE f \in MdCatalogue : f.id = post.source

Parsed == mdFiles \ (pending \cup skipped)

\* C12: load_posts never fails wholesale because of one file: whatever
\* Markdown files the content root holds it returns, and the list returned
\* holds exactly the posts of the files whose parsing succeeded, every file
\* whose parsing failed being skipped.
C12_LoadNeverFailsWholesale ==
    /\ lpc # "raised"
    /\ lpc = "done" =>
          /\ Len(loaded) = Cardinality(mdFiles \ skipped)
          /\ {loaded[i].source : i \in 1..Len(loaded)} =
                {f.id : f \in mdFiles \ skipped}

NonIncreasing(ps) == \A i, j \in 1..Len(ps) : i < j => ps[i].date.t >= ps[j].date.t

\* Every file that parsed is in the list once, and nothing else is.
IsPermutationOfParsed(ps) ==
    /\ Len(ps) = Cardinality(Parsed)
    /\ \A f \in Parsed : \E i \in 1..Len(ps) : ps[i].source = f.id
    /\ \A i \in 1..Len(ps) : FileOfPost(ps[i]) \in Parsed

RECURSIVE SeqById(_)
\* The files in the order of their names.
SeqById(fs) ==
    IF fs = {} THEN <<>>
    ELSE LET first == CHOOSE f \in fs : \A g \in fs : f.id <= g.id
         IN <<first>> \o SeqById(fs \ {first})

\* What load_posts returns in a run in which rglob yields the files in the
\* order of their names.
RunInNameOrder(fs) ==
    SortByDate(SelectSeq([i \in 1..Cardinality(fs) |-> ParsePost(SeqById(fs)[i])],
                         LAMBDA post : post # NoPost))

DistinctDates(ps) == \A i, j \in 1..Len(ps) : i # j => ps[i].date.t # ps[j].date.t

\* C13, as claimed: the list load_posts returns is ordered by non-increasing
\* date, is a permutation of the posts that parsed, and is in the same order
\* in every run over the same files: the order of the run in which the
\* files are found in the order of their names.
C13_SortedSameOrderEveryRun ==
    lpc = "done" =>
        /\ NonIncreasing(loaded)
        /\ IsPermutationOfParsed(loaded)
        /\ loaded = RunInNameOrder(mdFiles)

\* C13, amended: the list load_posts returns is ordered by non-increasing
\* date and is a permutation of the posts that parsed; it is in the same
\* order in every run over the same files when no two posts have the same
\* date.
C13_SortedSameOrderForDistinctDates ==
    lpc = "done" =>
        /\ NonIncreasing(loaded)
        /\ IsPermutationOfParsed(loaded)
        /\ (DistinctDates(loaded) => loaded = RunInNameOrder(mdFiles))

\* Three files of distinct dates have been loaded and are returned latest
\* first: the file without a date field, by its modification time, last.
C13_ThreeSorted ==
    /\ lpc = "done"
    /\ Len(loaded) = 3
    /\ loaded[1].date.t > loaded[2].date.t
    /\ loaded[2].date.t > loaded[3].date.t
    /\ loaded[3].source = 3

\* The date field is a string that matches none of the five formats, or is
\* of an unsupported type.
InvalidDate(file) ==
    \/ /\ file.date.kind = "str"
       /\ file.date.shape \notin {"%Y-%m-%d", "%Y/%m/%d", "%Y-%m-%d %H:%M:%S",
                                 "%Y/%m/%d %H:%M:%S", "%Y-%m-%dT%H:%M:%S"}
    \/ file.date.kind \notin {"absent", "str", "datetime", "date"}

\* C14: parse_post fails exactly when the document has no title field or
\* its date field is present but is a string matching none of the five
\* formats or a value of an unsupported type; the date of a post is its
\* date field when it has one, never the default, and the modification time
\* of the file only when the field is absent.
C14_FailsExactlyOnTitleOrDate ==
    /\ \A f \in mdFiles \ pending :
          f \in skipped <=> (f.title = "absent" \/ InvalidDate(f))
    /\ \A i \in 1..Len(loaded) :
          LET f == FileOfPost(loaded[i])
          IN loaded[i].date.t = IF f.date.kind = "absent" THEN f.mtime ELSE f.date.t

\* The names of md_dir followed by `rest`: a path inside the content root.
Inside(rest) == <<"srv", "md">> \o rest

\* The target of reference j of the file is relative and resolves to the
\* regular file Inside(rest).
ResolvesInside(f, j, rest) ==
    /\ f.refs[j].prefix = ""
    /\ Resolve(<<"srv", "md">> \o f.dir \o f.refs[j].path) = Inside(rest)
    /\ Inside(rest) \in RegularFiles

ImagePathsUnderRoot ==
    {SubSeq(file, 3, Len(file)) : file \in {g \in RegularFiles : IsUnder(g, <<"srv", "md">>)}}

\* C20: an image reference is rewritten to /assets/images/{path relative to
\* the content root} exactly when its target is relative (neither http://,
\* https://, // nor /) and resolves to an existing file inside the content
\* root; the resolved path is recorded in images exactly when the reference
\* is rewritten; every other reference is left as it is and not recorded.
C20_ImageRewrittenIffInsideRoot ==
    \A i \in 1..Len(loaded) :
        LET post == loaded[i]
            f == FileOfPost(post)
            rewritten == {j \in 1..Len(f.refs) :
                             \E rest \in ImagePathsUnderRoot : ResolvesInside(f, j, rest)}
        IN /\ Len(post.refs) = Len(f.refs)
           /\ \A j \in 1..Len(f.refs) :
                 IF j \in rewritten
                 THEN \E rest \in ImagePathsUnderRoot :
                         /\ ResolvesInside(f, j, rest)
                         /\ post.refs[j] = ImageRef("/assets/images/", rest)
                         /\ \E k \in 1..Len(post.images) : post.images[k] = Inside(rest)
                 ELSE post.refs[j] = f.refs[j]
           /\ Len(post.images) = Cardinality(rewritten)

\* The post of d/3.md is loaded: its reference to ../../pics/x.png, an
\* existing file outside the content root, is as it was, its reference to
\* ../img/a.png is rewritten to /assets/images/img/a.png and recorded; the
\* remote and absolute references of 2.md are as they were.
C20_InsideRewrittenOutsideKept ==
    /\ lpc = "done"
    /\ \E i, k \in 1..Len(loaded) :
          /\ loaded[i].source = 3
          /\ loaded[i].refs[1] = ImageRef("", <<"..", "..", "pics", "x.png">>)
          /\ loaded[i].refs[2] = ImageRef("/assets/images/", <<"img", "a.png">>)
          /\ loaded[i].images = << <<"srv", "md", "img", "a.png">> >>
          /\ loaded[k].source = 2
          /\ loaded[k].images = <<>>
          /\ loaded[k].refs[4] = ImageRef("/", <<"img", "a.png">>)

\* C21: the password of a loaded post is non-empty only when its encrypted
\* flag is true: a document with a password field and no encrypted field, or
\* with encrypted false, gives a post with an empty password.
C21_PasswordOnlyWhenEncrypted ==
    \A i \in 1..Len(loaded) : loaded[i].password # "" => loaded[i].encrypted

\* C22: once load() has returned True, get_template("index") and
\* get_template("post") do not raise ThemeError: load() succeeds only for a
\* theme whose mapping has both names with files that exist.
C22_LoadedThemeHasIndexAndPost ==
    themeLoaded = "loaded" =>
        \A name \in {"index", "post"} :
            lookups[name] \notin {"not configured", "file missing"}

\* C23: every generate() that returns True leaves index.html in the output
\* directory, for every number of posts, zero included, and every
\* posts_per_page setting.
C23_SuccessLeavesIndex ==
    result = "ok" => IndexFile \in out

\* C24: distinct tag names get distinct files under tags/: when the tag step
\* has returned, no two tags share a path, no tag page has the path of
\* tags/index.html, there are as many tag pages as tags, and the page of
\* every tag holds the posts of that tag.
C24_DistinctTagsDistinctFiles ==
    Completed("tags") =>
        LET keys == TagKeys(posts) IN
        /\ \A i, j \in 1..Len(keys) :
              i # j => TagPath(keys[i]) # TagPath(keys[j])
        /\ \A i \in 1..Len(keys) :
              /\ TagPath(keys[i]) # TagsIndexFile
              /\ TagPath(keys[i]) \in DOMAIN contents
              /\ contents[TagPath(keys[i])] = TagContent(posts, keys[i])
        /\ Cardinality({f \in out : f[1] = "tags"} \ {TagsIndexFile}) = Len(keys)

\* C25: the plaintext body of a protected post reaches no output file: its
\* post page, rss.xml and search-index.json carry the body as an encrypted
\* payload or not at all, whether or not the post has a description.
C25_ProtectedBodyNeverInOutput ==
    \A i \in 1..Len(posts) :
        IsProtected(posts[i]) =>
            \A f \in DOMAIN contents :
                /\ contents[f].body # posts[i].html
                /\ \A j \in 1..Len(contents[f].excerpts) :
                      contents[f].excerpts[j] # posts[i].html

\* C26: every URL of the sitemap.xml a build wrote is that of a file the
\* same build wrote: the home page, archive.html and the tag index are
\* listed only when written, and every listed post and tag page exists.
C26_SitemapListsWrittenFiles ==
    (result = "ok" /\ SitemapFile \in DOMAIN contents) =>
        \A i \in 1..Len(contents[SitemapFile].data) :
            contents[SitemapFile].data[i] \in written

\* C27: for every image reference parse_post rewrote to
\* /assets/images/{rel}, rel being the path of the image relative to the
\* directory the posts were loaded from, a build that returned True has the
\* file assets/images/{rel} in its output, whatever build.md_dir is.
C27_RewrittenImagesAreCopied ==
    result = "ok" =>
        \A i \in 1..Len(posts) :
            \A j \in 1..Len(posts[i].images) :
                <<"assets", "images">> \o RelativeTo(posts[i].images[j], MdDir)
                    \in out

====
